---- MODULE Spec2Model ----
(***************************************************************************)
(* Model of NavigationDataManager (js/core/data-manager.js): the record    *)
(* store, its by-id / by-date / spatial-grid indexes, the lazily rebuilt   *)
(* chronological view and the TTL query cache.                             *)
(*                                                                         *)
(* Conventions.                                                            *)
(*  - A JavaScript object field that is absent (undefined) is Undef.       *)
(*  - A coordinate string is a name, Chars gives its characters; the       *)
(*    degree sign is the token "deg", the character U+00C2 is "Acirc".     *)
(*  - A decimal coordinate is an integer number of 1/600 degree (a tenth   *)
(*    of a minute), so degrees + minutes/60 is exact for the strings used. *)
(*  - A log date is 1..MaxDate for the ISO strings "2024-01-01",           *)
(*    "2024-01-02", ... (string order = numeric order), or BadDate for the *)
(*    empty string; a positionTime is the minute of the day of "HH:MM".    *)
(*  - The performance counters (this.metrics) are never read by any        *)
(*    operation and are left out.                                          *)
(***************************************************************************)
EXTENDS Integers, Sequences, FiniteSets, TLC

\* ------------------------------------------------------------------ bounds
MaxLogs == 2
MaxDate == 2
MaxJumps == 1
\* mutating calls in one run of a specification that also queries
MaxCalls == 4
\* the clock reading at construction
T0 == 1000

\* ------------------------------------------------------- program constants
gridSize == 300
ttl == 300000
maxSize == 1000
maxCoordinateCache == 500
\* the time-to-live getChronologicalLogs passes to _setCached
chronologicalTtl == 600000

\* An absent (undefined) field, by the type of the field: a number (ids,
\* instants, dates and times are never negative) or a flag; UndefStr below is
\* the absent coordinate string.
UndefNum == 0 - 1
Undef == "undefined"
\* the null returned by a failed parse (decimals are multiples of 1/600 degree
\* between -180 and 180 degrees, so the value cannot be a decimal)
Null == 1000000 - 1
\* the empty string as a logDate: it orders before every ISO date
BadDate == 1 - 1

\* `const v = value; ...`: a value computed once and named in what follows
With(value, Rest(_)) == Rest(value)

\* --------------------------------------------------------- coordinates
Digits == {"0", "1", "2", "3", "4", "5", "6", "7", "8", "9"}
Directions == {"N", "S", "E", "W"}

DigitVal(c) ==
  CASE c = "0" -> 0 [] c = "1" -> 1 [] c = "2" -> 2 [] c = "3" -> 3
    [] c = "4" -> 4 [] c = "5" -> 5 [] c = "6" -> 6 [] c = "7" -> 7
    [] c = "8" -> 8 [] c = "9" -> 9

RECURSIVE ParseInt10(_)
\* parseInt(text, 10) on a run of decimal digits
ParseInt10(ds) ==
  IF ds = << >> THEN 0
  ELSE 10 * ParseInt10(SubSeq(ds, 1, Len(ds) - 1)) + DigitVal(ds[Len(ds)])

AllDigits(s, i, j) == \A k \in i..j : s[k] \in Digits

\* text s[i..j] matches \d+\.?\d*
IsMinutes(s, i, j) ==
  /\ i <= j
  /\ s[i] \in Digits
  /\ \E d \in i..j :
       /\ AllDigits(s, i, d)
       /\ \/ d = j
          \/ /\ s[d + 1] = "."
             /\ AllDigits(s, d + 2, j)

\* parseFloat of text matching \d+\.?\d*, in tenths (one fractional digit kept)
MinutesTenths(s, i, j) ==
  LET d == CHOOSE d \in i..j : AllDigits(s, i, d) /\ (d = j \/ s[d + 1] = ".")
  IN  10 * ParseInt10(SubSeq(s, i, d))
        + (IF d + 2 <= j THEN DigitVal(s[d + 2]) ELSE 0)

\* A match of /(\d+)<sep>(\d+\.?\d*)'([NSEW])/ starting at i, where sep is the
\* text between the degrees and the minutes: [j |-> end of group 1,
\* m |-> start of group 2, k |-> position of the quote].
MatchesAt(s, sep, i) ==
  LET cand == { <<j, k>> \in (i..Len(s)) \X (1..Len(s)) :
                  /\ AllDigits(s, i, j)
                  /\ j + Len(sep) + 1 <= Len(s)
                  /\ SubSeq(s, j + 1, j + Len(sep)) = sep
                  /\ k + 1 <= Len(s)
                  /\ IsMinutes(s, j + Len(sep) + 1, k - 1)
                  /\ s[k] = "'"
                  /\ s[k + 1] \in Directions }
  IN  { [j |-> c[1], m |-> c[1] + Len(sep) + 1, k |-> c[2]] : c \in cand }

\* the separator the regular expression of _parseCoordinate requires
DataManagerSep == <<"Acirc", "deg">>

\* NavigationDataManager._parseCoordinate: decimal (1/600 degree) or Null.
\* The regular expression is not anchored: the leftmost match is taken.
ParseWith(sep, coordString) ==
  With({ i \in 1..Len(coordString) : MatchesAt(coordString, sep, i) # {} },
       LAMBDA starts :
  IF starts = {} THEN Null
  ELSE With(CHOOSE i \in starts : \A i2 \in starts : i <= i2, LAMBDA i :
       With(CHOOSE r \in MatchesAt(coordString, sep, i) : TRUE, LAMBDA r :
       With(ParseInt10(SubSeq(coordString, i, r.j)) * 600
              + MinutesTenths(coordString, r.m, r.k - 1), LAMBDA decimal :
       IF coordString[r.k + 1] \in {"S", "W"} THEN 0 - decimal ELSE decimal))))

\* The coordinate strings of the inputs, by name: "20deg30.0'N" and
\* "158deg00.0'W" in the format of the documentation and the sample data, and
\* positions written with U+00C2 before the degree sign.
LatStd == "20d30.0'N"
LonStd == "158d00.0'W"
LatMoj == "20Ad30.0'N"
LonMoj == "158Ad00.0'W"
LatMoj2 == "21Ad30.0'N"
UndefStr == "undefined"

Chars(name) ==
  CASE name = LatStd -> <<"2", "0", "deg", "3", "0", ".", "0", "'", "N">>
    [] name = LonStd -> <<"1", "5", "8", "deg", "0", "0", ".", "0", "'", "W">>
    [] name = LatMoj -> <<"2", "0", "Acirc", "deg", "3", "0", ".", "0", "'", "N">>
    [] name = LonMoj -> <<"1", "5", "8", "Acirc", "deg", "0", "0", ".", "0", "'", "W">>
    [] name = LatMoj2 -> <<"2", "1", "Acirc", "deg", "3", "0", ".", "0", "'", "N">>

CoordStrings == {LatStd, LonStd, LatMoj, LonMoj, LatMoj2}

\* the parse of every input string, computed once
Parsed == [name \in CoordStrings |-> ParseWith(DataManagerSep, Chars(name))]

_parseCoordinate(coordString) == Parsed[coordString]

\* Math.floor(v / this.gridSize) and Math.ceil(v / this.gridSize)
FloorDiv(v, g) == IF v >= 0 THEN v \div g ELSE 0 - (((0 - v) + g - 1) \div g)
CeilDiv(v, g) == 0 - FloorDiv(0 - v, g)

\* ------------------------------------------------------------------ maps
\* a JavaScript Map as a function on its keys
EmptyMap == << >>
Has(f, k) == k \in DOMAIN f
MapSet(f, k, v) == [x \in (DOMAIN f) \cup {k} |-> IF x = k THEN v ELSE f[x]]
MapDel(f, k) == [x \in (DOMAIN f) \ {k} |-> f[x]]

\* Array.prototype.findIndex(l => l.id === id): 0 when there is none
FindIndex(logs, id) ==
  IF \E i \in 1..Len(logs) : logs[i].id = id
  THEN CHOOSE i \in 1..Len(logs) :
         /\ logs[i].id = id
         /\ \A j \in 1..(i - 1) : logs[j].id # id
  ELSE 0

\* Array.prototype.splice(index, 1)
Splice(logs, i) == SubSeq(logs, 1, i - 1) \o SubSeq(logs, i + 1, Len(logs))

\* ---------------------------------------------------------------- records
Fields == {"id", "entryTimestamp", "lastModified", "logDate", "positionTime",
           "latitude", "longitude", "isImportant"}

\* the absent value of a field
Absent(f) ==
  IF f \in {"latitude", "longitude"} THEN UndefStr
  ELSE IF f = "isImportant" THEN Undef
  ELSE UndefNum

\* { ...base, ...logData }: a field logData carries replaces the one of base
Spread(base, logData) ==
  [f \in Fields |-> IF logData[f] # Absent(f) THEN logData[f] ELSE base[f]]

NoFields == [f \in Fields |-> Absent(f)]

\* parseInt(id) of an id given as a number
ParseIntId(id) == id

\* ------------------------------------------------------------ query cache
\* A cache key is its literal head and its parameters.
DateHead == <<"d", "a", "t", "e", "_">>
DateRangeHead == <<"d", "a", "t", "e", "R", "a", "n", "g", "e", "_">>
BoundsHead == <<"b", "o", "u", "n", "d", "s", "_">>
ChronoHead == <<"c", "h", "r", "o", "n", "o", "l", "o", "g", "i", "c", "a", "l",
                "_", "a", "l", "l">>
ChronologicalCat == <<"c", "h", "r", "o", "n", "o", "l", "o", "g", "i", "c", "a", "l">>
DateRangeCat == <<"d", "a", "t", "e", "R", "a", "n", "g", "e">>
AllCat == <<"a", "l", "l">>

Key(head, a, b, c, d) == [head |-> head, a |-> a, b |-> b, c |-> c, d |-> d]
DateKey(date) == Key(DateHead, date, 0, 0, 0)
DateRangeKey(startDate, endDate) == Key(DateRangeHead, startDate, endDate, 0, 0)
BoundsKey(northEast, southWest) ==
  Key(BoundsHead, southWest.lat, southWest.lon, northEast.lat, northEast.lon)
ChronoKey == Key(ChronoHead, 0, 0, 0, 0)

\* key.startsWith(category); a head shorter than the category differs from it
\* within the head (date_ against dateRange), whatever the parameters are
StartsWith(key, category) ==
  /\ Len(category) <= Len(key.head)
  /\ SubSeq(key.head, 1, Len(category)) = category

\* A cached payload is an array. The array cached by getLogsByDate is the
\* bucket of the by-date index itself (bucket = TRUE): it shows the bucket's
\* later in-place changes until the bucket is dropped from the index.
Value(logs) == [bucket |-> FALSE, v |-> logs]
BucketOf == [bucket |-> TRUE, v |-> << >>]

Payload(s, key) ==
  IF s.cache[key].bucket THEN s.logsByDate[key.a] ELSE s.cache[key].v

\* the bucket of `date` leaves the index holding `logs`: the cached array stays
\* what it is
Detach(cache, date, logs) ==
  [k \in DOMAIN cache |->
     IF cache[k].bucket /\ k.a = date THEN Value(logs) ELSE cache[k]]

\* ---------------------------------------------------------------- the state
InitialBounds == [minLat |-> 54000, maxLat |-> 0 - 54000,
                  minLon |-> 108000, maxLon |-> 0 - 108000]

Constructed ==
  [navigationLogs |-> << >>,
   logsById |-> EmptyMap,
   logsByDate |-> EmptyMap,
   chronologicalIndex |-> << >>,
   chronologicalDirty |-> TRUE,
   spatialGrid |-> EmptyMap,
   spatialBounds |-> InitialBounds,
   cache |-> EmptyMap,
   cacheTimestamps |-> EmptyMap,
   coordinateCache |-> EmptyMap,
   thrown |-> FALSE]

\* -------------------------------------------------------- coordinate memo
NoCoords == [ok |-> FALSE, lat |-> 0, lon |-> 0]
NullEntry == [isNull |-> TRUE, lat |-> 0, lon |-> 0, lastUsed |-> 0]

CoordKey(log) == <<log.latitude, log.longitude>>

_evictOldestCoordinates(s, t) ==
  LET cc == s.coordinateCache
      cands == { k \in DOMAIN cc : ~cc[k].isNull /\ cc[k].lastUsed < t }
  IN  IF cands = {} THEN s
      ELSE LET oldestKey == CHOOSE k \in cands :
                              \A k2 \in cands : cc[k].lastUsed <= cc[k2].lastUsed
           IN  [s EXCEPT !.coordinateCache = MapDel(@, oldestKey)]

\* [s |-> the state after the call, coords |-> the value returned]; the call
\* throws (s.thrown) when a coordinate is not a string: undefined.match(...)
_getCachedCoordinates(s, log, t) ==
  With(CoordKey(log), LAMBDA coordKey :
  IF ~Has(s.coordinateCache, coordKey)
  THEN With(IF Cardinality(DOMAIN s.coordinateCache) >= maxCoordinateCache
            THEN _evictOldestCoordinates(s, t) ELSE s, LAMBDA s1 :
       IF log.latitude = UndefStr \/ log.longitude = UndefStr
       THEN [s |-> [s1 EXCEPT !.thrown = TRUE], coords |-> NoCoords]
       ELSE With(_parseCoordinate(log.latitude), LAMBDA lat :
            With(_parseCoordinate(log.longitude), LAMBDA lon :
            IF lat # Null /\ lon # Null
            THEN [s |-> [s1 EXCEPT !.coordinateCache = MapSet(@, coordKey,
                           [isNull |-> FALSE, lat |-> lat, lon |-> lon,
                            lastUsed |-> t])],
                  coords |-> [ok |-> TRUE, lat |-> lat, lon |-> lon]]
            ELSE [s |-> [s1 EXCEPT !.coordinateCache =
                           MapSet(@, coordKey, NullEntry)],
                  coords |-> NoCoords])))
  ELSE With(s.coordinateCache[coordKey], LAMBDA cached :
       IF cached.isNull THEN [s |-> s, coords |-> NoCoords]
       ELSE [s |-> [s EXCEPT !.coordinateCache[coordKey].lastUsed = t],
             coords |-> [ok |-> TRUE, lat |-> cached.lat, lon |-> cached.lon]]))

GridKey(coords) == <<FloorDiv(coords.lon, gridSize), FloorDiv(coords.lat, gridSize)>>

_updateSpatialBounds(bounds, coords) ==
  [minLat |-> IF coords.lat < bounds.minLat THEN coords.lat ELSE bounds.minLat,
   maxLat |-> IF coords.lat > bounds.maxLat THEN coords.lat ELSE bounds.maxLat,
   minLon |-> IF coords.lon < bounds.minLon THEN coords.lon ELSE bounds.minLon,
   maxLon |-> IF coords.lon > bounds.maxLon THEN coords.lon ELSE bounds.maxLon]

\* ------------------------------------------------------------------ indexes
\* _updateIndexes, the by-date part: push into the bucket of log.logDate
AddToDateIndex(s, log) ==
  [s EXCEPT !.logsByDate = MapSet(@, log.logDate,
              IF Has(@, log.logDate) THEN Append(@[log.logDate], log)
              ELSE <<log>>)]

\* _updateIndexes, the spatial part, for parsed coordinates
AddToGrid(s, log, coords, skipSpatialBounds) ==
  With(GridKey(coords), LAMBDA gridKey :
  [s EXCEPT
     !.spatialBounds = IF skipSpatialBounds THEN @
                       ELSE _updateSpatialBounds(@, coords),
     !.spatialGrid = MapSet(@, gridKey,
        IF Has(@, gridKey) THEN Append(@[gridKey], log) ELSE <<log>>)])

\* a throw of _getCachedCoordinates leaves the method before its last line
_updateIndexes(s, log, skipSpatialBounds, t) ==
  With(_getCachedCoordinates(
         AddToDateIndex([s EXCEPT !.logsById = MapSet(@, log.id, log)], log),
         log, t), LAMBDA g :
  IF g.s.thrown THEN g.s
  ELSE [(IF g.coords.ok THEN AddToGrid(g.s, log, g.coords, skipSpatialBounds)
         ELSE g.s) EXCEPT !.chronologicalDirty = TRUE])

\* _removeFromIndexes, the by-date part
RemoveFromDateIndex(s, log) ==
  IF Has(s.logsByDate, log.logDate)
  THEN With(s.logsByDate[log.logDate], LAMBDA dateLogs :
       With(FindIndex(dateLogs, log.id), LAMBDA index :
       IF index = 0 THEN s
       ELSE IF Len(dateLogs) = 1
       THEN [s EXCEPT !.logsByDate = MapDel(@, log.logDate),
                      !.cache = Detach(@, log.logDate, << >>)]
       ELSE [s EXCEPT !.logsByDate[log.logDate] = Splice(dateLogs, index)]))
  ELSE s

\* the spatial part of _removeFromIndexes without the deletion of a cell
\* that became empty: the behaviour RemoveFromGrid is compared against
RemoveFromGridKeepingCell(s, log, coords) ==
  With(GridKey(coords), LAMBDA gridKey :
  IF Has(s.spatialGrid, gridKey)
  THEN With(FindIndex(s.spatialGrid[gridKey], log.id), LAMBDA index :
       IF index = 0 THEN s
       ELSE [s EXCEPT !.spatialGrid[gridKey] = Splice(@, index)])
  ELSE s)

\* _removeFromIndexes, the spatial part, for parsed coordinates
RemoveFromGrid(s, log, coords) ==
  With(GridKey(coords), LAMBDA gridKey :
  IF Has(s.spatialGrid, gridKey)
  THEN With(s.spatialGrid[gridKey], LAMBDA cellLogs :
       With(FindIndex(cellLogs, log.id), LAMBDA index :
       IF index = 0 THEN s
       ELSE IF Len(cellLogs) = 1
       THEN [s EXCEPT !.spatialGrid = MapDel(@, gridKey)]
       ELSE [s EXCEPT !.spatialGrid[gridKey] = Splice(cellLogs, index)]))
  ELSE s)

_removeFromIndexes(s, log, t) ==
  With(_getCachedCoordinates(
         RemoveFromDateIndex([s EXCEPT !.logsById = MapDel(@, log.id)], log),
         log, t), LAMBDA g :
  IF g.s.thrown THEN g.s
  ELSE [(IF g.coords.ok THEN RemoveFromGrid(g.s, log, g.coords) ELSE g.s)
          EXCEPT !.chronologicalDirty = TRUE])

\* logs.forEach(log => this._updateIndexes(log, skip)) from position i on; a
\* throw ends the loop
RECURSIVE UpdateEach(_, _, _, _, _)
UpdateEach(s, logs, i, skipSpatialBounds, t) ==
  IF i > Len(logs) \/ s.thrown THEN s
  ELSE UpdateEach(_updateIndexes(s, logs[i], skipSpatialBounds, t), logs, i + 1,
                  skipSpatialBounds, t)

\* -------------------------------------------------------------- query cache
\* A lookup that does not look at the age of the entry: the behaviour
\* _getCached is compared against.
_getCachedUnexpiring(s, key, t) ==
  IF ~Has(s.cacheTimestamps, key) \/ s.cacheTimestamps[key] = 0
  THEN [s |-> [s EXCEPT !.cache = MapDel(@, key),
                        !.cacheTimestamps = MapDel(@, key)],
        hit |-> FALSE]
  ELSE [s |-> s, hit |-> Has(s.cache, key)]

\* [s |-> state after the lookup, hit |-> whether a payload is returned]
_getCached(s, key, t) ==
  IF \/ ~Has(s.cacheTimestamps, key)
     \/ s.cacheTimestamps[key] = 0
     \/ t - s.cacheTimestamps[key] > ttl
  THEN [s |-> [s EXCEPT !.cache = MapDel(@, key),
                        !.cacheTimestamps = MapDel(@, key)],
        hit |-> FALSE]
  ELSE [s |-> s, hit |-> Has(s.cache, key)]

\* oldestTime starts at Date.now() and only a timestamp below it is taken
_evictOldestCache(s, t) ==
  With({ s.cacheTimestamps[k] : k \in DOMAIN s.cacheTimestamps }, LAMBDA times :
  With({ time \in times : time < t }, LAMBDA earlier :
  IF earlier = {} THEN s
  ELSE With(CHOOSE time \in earlier : \A time2 \in earlier : time <= time2,
            LAMBDA oldestTime :
       With(CHOOSE k \in DOMAIN s.cacheTimestamps :
              s.cacheTimestamps[k] = oldestTime, LAMBDA oldestKey :
       [s EXCEPT !.cache = MapDel(@, oldestKey),
                 !.cacheTimestamps = MapDel(@, oldestKey)]))))

\* the ttl argument is not used by the code
_setCached(s, key, value, ttlArg, t) ==
  [(IF Cardinality(DOMAIN s.cache) >= maxSize THEN _evictOldestCache(s, t) ELSE s)
     EXCEPT !.cache = MapSet(@, key, value),
            !.cacheTimestamps = MapSet(@, key, t)]

\* An invalidation that empties the cache whatever the categories are: the
\* behaviour _invalidateCaches is compared against.
_invalidateCachesWhole(s, categories) ==
  [s EXCEPT !.cache = EmptyMap, !.cacheTimestamps = EmptyMap]

_invalidateCaches(s, categories) ==
  IF AllCat \in categories
  THEN [s EXCEPT !.cache = EmptyMap, !.cacheTimestamps = EmptyMap]
  ELSE LET gone == { k \in DOMAIN s.cache :
                       \E category \in categories : StartsWith(k, category) }
       IN  [s EXCEPT
              !.cache = [k \in (DOMAIN s.cache) \ gone |-> s.cache[k]],
              !.cacheTimestamps =
                 [k \in (DOMAIN s.cacheTimestamps) \ gone |-> s.cacheTimestamps[k]]]

MutationCategories == {ChronologicalCat, DateRangeCat}

\* ---------------------------------------------------------------- mutations
\* Each returns [s |-> the state after the call (s.thrown: it threw), ...].

\* a mutating method ends with _invalidateCaches unless it threw before
Invalidated(s) == IF s.thrown THEN s ELSE _invalidateCaches(s, MutationCategories)

\* A store that numbers its records consecutively instead of by the clock:
\* the behaviour addNavigationLog is compared against.
ConsecutiveId(logs) ==
  IF logs = << >> THEN 1
  ELSE 1 + (CHOOSE m \in { logs[i].id : i \in 1..Len(logs) } :
              \A i \in 1..Len(logs) : logs[i].id <= m)

addNavigationLogConsecutive(s, logData, t) ==
  With(Spread([NoFields EXCEPT !.id = ConsecutiveId(s.navigationLogs),
                               !.entryTimestamp = t], logData), LAMBDA newLog :
  [s |-> Invalidated(_updateIndexes(
           [s EXCEPT !.navigationLogs = Append(@, newLog)], newLog, FALSE, t)),
   newLog |-> newLog])

addNavigationLog(s, logData, t) ==
  With(Spread([NoFields EXCEPT !.id = t, !.entryTimestamp = t], logData),
       LAMBDA newLog :
  [s |-> Invalidated(_updateIndexes(
           [s EXCEPT !.navigationLogs = Append(@, newLog)], newLog, FALSE, t)),
   newLog |-> newLog])

\* _removeFromIndexes(oldLog); _updateIndexes(updatedLog): the second runs
\* when the first did not throw
Reindexed(s, oldLog, updatedLog, t) ==
  With(_removeFromIndexes(s, oldLog, t), LAMBDA s2 :
  IF s2.thrown THEN s2 ELSE _updateIndexes(s2, updatedLog, FALSE, t))

updateNavigationLog(s, id, logData, t) ==
  With(FindIndex(s.navigationLogs, ParseIntId(id)), LAMBDA index :
  IF index = 0 THEN [s |-> s, found |-> FALSE, updatedLog |-> NoFields]
  ELSE With(s.navigationLogs[index], LAMBDA oldLog :
       With(Spread([NoFields EXCEPT
                      !.id = ParseIntId(id),
                      !.entryTimestamp =
                         IF oldLog.entryTimestamp = UndefNum
                            \/ oldLog.entryTimestamp = 0
                         THEN t ELSE oldLog.entryTimestamp,
                      !.lastModified = t],
                   logData), LAMBDA updatedLog :
       [s |-> Invalidated(Reindexed([s EXCEPT !.navigationLogs[index] = updatedLog],
                                    oldLog, updatedLog, t)),
        found |-> TRUE, updatedLog |-> updatedLog])))

\* A rebuild that keeps the cached query results: the behaviour
\* _rebuildAllIndexes is compared against.
_rebuildKeepingCache(s, t) ==
  UpdateEach([s EXCEPT !.logsById = EmptyMap,
                       !.logsByDate = EmptyMap,
                       !.spatialGrid = EmptyMap,
                       !.spatialBounds = InitialBounds],
             s.navigationLogs, 1, FALSE, t)

\* A delete that drops the cached queries before it looks the id up: the
\* behaviour deleteNavigationLog is compared against.
deleteNavigationLogEager(s, id, t) ==
  With(_invalidateCaches(s, MutationCategories), LAMBDA s0 :
  With(FindIndex(s0.navigationLogs, ParseIntId(id)), LAMBDA index :
  IF index = 0 THEN [s |-> s0, found |-> FALSE]
  ELSE [s |-> _removeFromIndexes([s0 EXCEPT !.navigationLogs = Splice(@, index)],
                                 s0.navigationLogs[index], t),
        found |-> TRUE]))

deleteNavigationLog(s, id, t) ==
  With(FindIndex(s.navigationLogs, ParseIntId(id)), LAMBDA index :
  IF index = 0 THEN [s |-> s, found |-> FALSE]
  ELSE [s |-> Invalidated(_removeFromIndexes(
                [s EXCEPT !.navigationLogs = Splice(@, index)],
                s.navigationLogs[index], t)),
        found |-> TRUE])

bulkAddLogs(s, logs, t) ==
  Invalidated(UpdateEach([s EXCEPT !.navigationLogs = @ \o logs], logs, 1, TRUE, t))

_rebuildAllIndexes(s, t) ==
  UpdateEach(_invalidateCaches([s EXCEPT
                                  !.logsById = EmptyMap,
                                  !.logsByDate = EmptyMap,
                                  !.spatialGrid = EmptyMap,
                                  !.spatialBounds = InitialBounds], {AllCat}),
             s.navigationLogs, 1, FALSE, t)

replaceAllLogs(s, logs, t) ==
  _rebuildAllIndexes([s EXCEPT !.navigationLogs = logs], t)

\* ------------------------------------------------------------------ queries
getLogById(s, id) ==
  IF Has(s.logsById, ParseIntId(id)) THEN <<s.logsById[ParseIntId(id)]>> ELSE << >>

\* [s |-> state after, hit |-> answered from the cache, ret |-> array returned]
getLogsByDate(s, date, t) ==
  With(_getCached(s, DateKey(date), t), LAMBDA c :
  IF c.hit THEN [s |-> c.s, hit |-> TRUE, ret |-> Payload(c.s, DateKey(date))]
  ELSE IF Has(c.s.logsByDate, date)
  THEN [s |-> _setCached(c.s, DateKey(date), BucketOf, 300000, t),
        hit |-> FALSE, ret |-> c.s.logsByDate[date]]
  ELSE [s |-> _setCached(c.s, DateKey(date), Value(<< >>), 300000, t),
        hit |-> FALSE, ret |-> << >>])

\* log.logDate >= startDate && log.logDate <= endDate on strings; a comparison
\* with undefined is false
StrGE(x, y) == x # UndefNum /\ y # UndefNum /\ x >= y

InRange(log, startDate, endDate) ==
  StrGE(log.logDate, startDate) /\ StrGE(endDate, log.logDate)

RECURSIVE Filter(_, _, _)
Filter(logs, startDate, endDate) ==
  IF logs = << >> THEN << >>
  ELSE (IF InRange(Head(logs), startDate, endDate) THEN <<Head(logs)>> ELSE << >>)
         \o Filter(Tail(logs), startDate, endDate)

getLogsByDateRange(s, startDate, endDate, t) ==
  With(_getCached(s, DateRangeKey(startDate, endDate), t), LAMBDA c :
  IF c.hit
  THEN [s |-> c.s, hit |-> TRUE,
        ret |-> Payload(c.s, DateRangeKey(startDate, endDate))]
  ELSE With(Filter(c.s.navigationLogs, startDate, endDate), LAMBDA filteredLogs :
       [s |-> _setCached(c.s, DateRangeKey(startDate, endDate),
                         Value(filteredLogs), 300000, t),
        hit |-> FALSE, ret |-> filteredLogs]))

\* new Date(`${logDate}T${positionTime}`) in minutes; an invalid date is NaN
IsNaNDate(log) == log.logDate < 1 \/ log.positionTime < 0
Epoch(log) == log.logDate * 1440 + log.positionTime

\* the comparator; Array.prototype.sort reads a NaN result as 0
Compare(a, b) == IF IsNaNDate(a) \/ IsNaNDate(b) THEN 0 ELSE Epoch(a) - Epoch(b)

\* Array.prototype.sort is stable: an element goes behind the last one that
\* does not compare greater
InsertSorted(sorted, x) ==
  With(IF \E i \in 1..Len(sorted) : Compare(sorted[i], x) <= 0
       THEN CHOOSE i \in 1..Len(sorted) :
              /\ Compare(sorted[i], x) <= 0
              /\ \A j \in (i + 1)..Len(sorted) : Compare(sorted[j], x) > 0
       ELSE 0, LAMBDA p :
  SubSeq(sorted, 1, p) \o <<x>> \o SubSeq(sorted, p + 1, Len(sorted)))

RECURSIVE Sort(_)
Sort(logs) ==
  IF logs = << >> THEN << >>
  ELSE InsertSorted(Sort(SubSeq(logs, 1, Len(logs) - 1)), logs[Len(logs)])

getChronologicalLogs(s, t) ==
  IF ~s.chronologicalDirty /\ Len(s.chronologicalIndex) = Len(s.navigationLogs)
  THEN [s |-> s, hit |-> TRUE, ret |-> s.chronologicalIndex]
  ELSE With(_getCached(s, ChronoKey, t), LAMBDA c :
       IF c.hit /\ ~c.s.chronologicalDirty
       THEN [s |-> c.s, hit |-> TRUE, ret |-> Payload(c.s, ChronoKey)]
       ELSE With(Sort(c.s.navigationLogs), LAMBDA sortedLogs :
            [s |-> _setCached([c.s EXCEPT !.chronologicalIndex = sortedLogs,
                                          !.chronologicalDirty = FALSE],
                              ChronoKey, Value(sortedLogs), chronologicalTtl, t),
             hit |-> FALSE, ret |-> sortedLogs]))

\* the arrays of the grid cells x = minX..maxX, y = minY..maxY, in the order
\* the nested loops visit them, concatenated; i counts the cells visited
RECURSIVE CellLogs(_, _, _, _, _, _)
CellLogs(grid, minX, maxX, minY, maxY, i) ==
  IF maxY < minY THEN << >>
  ELSE With(<<minX + (i \div (maxY - minY + 1)), minY + (i % (maxY - minY + 1))>>,
            LAMBDA cell :
       IF cell[1] > maxX THEN << >>
       ELSE (IF Has(grid, cell) THEN grid[cell] ELSE << >>)
              \o CellLogs(grid, minX, maxX, minY, maxY, i + 1))

InBox(coords, northEast, southWest) ==
  /\ coords.ok
  /\ coords.lat >= southWest.lat /\ coords.lat <= northEast.lat
  /\ coords.lon >= southWest.lon /\ coords.lon <= northEast.lon

\* cellLogs.forEach over the candidates from position i on
RECURSIVE ScanCells(_, _, _, _, _, _, _)
ScanCells(s, cands, i, northEast, southWest, logsInBounds, t) ==
  IF i > Len(cands) \/ s.thrown THEN [s |-> s, ret |-> logsInBounds]
  ELSE With(_getCachedCoordinates(s, cands[i], t), LAMBDA g :
       ScanCells(g.s, cands, i + 1, northEast, southWest,
                 IF InBox(g.coords, northEast, southWest)
                 THEN Append(logsInBounds, cands[i]) ELSE logsInBounds, t))

getLogsInBounds(s, northEast, southWest, t) ==
  With(_getCached(s, BoundsKey(northEast, southWest), t), LAMBDA c :
  IF c.hit
  THEN [s |-> c.s, hit |-> TRUE,
        ret |-> Payload(c.s, BoundsKey(northEast, southWest))]
  ELSE IF \/ southWest.lat > c.s.spatialBounds.maxLat
          \/ northEast.lat < c.s.spatialBounds.minLat
          \/ southWest.lon > c.s.spatialBounds.maxLon
          \/ northEast.lon < c.s.spatialBounds.minLon
  THEN [s |-> c.s, hit |-> FALSE, ret |-> << >>]
  ELSE With(ScanCells(c.s,
                      CellLogs(c.s.spatialGrid,
                               FloorDiv(southWest.lon, gridSize),
                               CeilDiv(northEast.lon, gridSize),
                               FloorDiv(southWest.lat, gridSize),
                               CeilDiv(northEast.lat, gridSize), 0),
                      1, northEast, southWest, << >>, t), LAMBDA r :
       [s |-> IF r.s.thrown THEN r.s
              ELSE _setCached(r.s, BoundsKey(northEast, southWest),
                              Value(r.ret), 180000, t),
        hit |-> FALSE, ret |-> r.ret]))

\* a cleanup that drops every entry whatever its age: the behaviour
\* CacheCleanup is compared against
CacheCleanupWhole(s, t) ==
  [s EXCEPT !.cache = EmptyMap, !.cacheTimestamps = EmptyMap]

\* the setInterval callback of _startCacheCleanup
CacheCleanup(s, t) ==
  With({ k \in DOMAIN s.cacheTimestamps : t - s.cacheTimestamps[k] > ttl },
       LAMBDA gone :
  [s EXCEPT
     !.cache = [k \in (DOMAIN @) \ gone |-> @[k]],
     !.cacheTimestamps = [k \in (DOMAIN @) \ gone |-> @[k]]])

\* ------------------------------------------------------------------ inputs
LogData(id, logDate, positionTime, latitude, longitude, isImportant) ==
  [NoFields EXCEPT !.id = id, !.logDate = logDate, !.positionTime = positionTime,
                   !.latitude = latitude, !.longitude = longitude,
                   !.isImportant = isImportant]

MissingId == 99

\* what a caller passes to addNavigationLog
SuppliedId == 7
AddInputs ==
  { LogData(UndefNum, 1, 720, LatMoj, LonMoj, Undef),
    LogData(UndefNum, BadDate, 480, LatStd, LonStd, "false"),
    LogData(SuppliedId, 1, 480, LatMoj2, LonMoj, "true") }

\* what a caller passes to updateNavigationLog: the fields to change
UpdateInputs ==
  { [NoFields EXCEPT !.isImportant = "true"],
    [NoFields EXCEPT !.isImportant = "false"],
    LogData(UndefNum, 2, 480, LatMoj2, LonMoj, "false") }

Imported1 == [LogData(11, 2, 720, LatMoj, LonMoj, "false") EXCEPT !.entryTimestamp = T0]
Imported2 == [LogData(12, 1, 480, LatMoj2, LonMoj, "true") EXCEPT !.entryTimestamp = T0]

BulkInputs == { <<Imported1>> }
ReplaceInputs == { << >>, <<Imported2, Imported1>> }

\* query boxes [northEast, southWest], in 1/600 degree
Boxes == { [northEast |-> [lat |-> 12600, lon |-> 0 - 94200],
            southWest |-> [lat |-> 12000, lon |-> 0 - 95400]] }

\* ------------------------------------------------------------- the machine
\* this.editingId = null: no entry is being edited
NoEdit == 0

VARIABLES navigationLogs, logsById, logsByDate, chronologicalIndex,
          chronologicalDirty, spatialGrid, spatialBounds, cache,
          cacheTimestamps, coordinateCache, now, last, calls, saved, editingId,
          argument, returned

dm == <<navigationLogs, logsById, logsByDate, chronologicalIndex,
        chronologicalDirty, spatialGrid, spatialBounds, cache,
        cacheTimestamps, coordinateCache>>
\* the argument and the result of a function called on its own
pure == <<argument, returned>>
vars == <<dm, now, last, calls, saved, editingId, pure>>

This ==
  [navigationLogs |-> navigationLogs, logsById |-> logsById,
   logsByDate |-> logsByDate, chronologicalIndex |-> chronologicalIndex,
   chronologicalDirty |-> chronologicalDirty, spatialGrid |-> spatialGrid,
   spatialBounds |-> spatialBounds, cache |-> cache,
   cacheTimestamps |-> cacheTimestamps, coordinateCache |-> coordinateCache,
   thrown |-> FALSE]

Becomes(s) ==
  /\ navigationLogs' = s.navigationLogs
  /\ logsById' = s.logsById
  /\ logsByDate' = s.logsByDate
  /\ chronologicalIndex' = s.chronologicalIndex
  /\ chronologicalDirty' = s.chronologicalDirty
  /\ spatialGrid' = s.spatialGrid
  /\ spatialBounds' = s.spatialBounds
  /\ cache' = s.cache
  /\ cacheTimestamps' = s.cacheTimestamps
  /\ coordinateCache' = s.coordinateCache

\* the last call: its name, the id and the record passed to a mutating call,
\* whether it threw, whether a query
\* was answered without recomputation, the array a query returned (the
\* record of getLogById as an array of one) and the kind of value returned
NoCall ==
  [op |-> "none", id |-> 0, data |-> NoFields, thrown |-> FALSE, hit |-> FALSE,
   ret |-> << >>, flag |-> "none"]

Init ==
  /\ navigationLogs = Constructed.navigationLogs
  /\ logsById = Constructed.logsById
  /\ logsByDate = Constructed.logsByDate
  /\ chronologicalIndex = Constructed.chronologicalIndex
  /\ chronologicalDirty = Constructed.chronologicalDirty
  /\ spatialGrid = Constructed.spatialGrid
  /\ spatialBounds = Constructed.spatialBounds
  /\ cache = Constructed.cache
  /\ cacheTimestamps = Constructed.cacheTimestamps
  /\ coordinateCache = Constructed.coordinateCache
  /\ now = T0
  /\ last = NoCall
  /\ calls = 0
  /\ saved = << >>
  /\ editingId = NoEdit
  /\ argument = << >>
  /\ returned = << >>

\* the ids a caller passes: those of the stored records, the one of the last
\* call, the one records are added under and one no record ever has
Ids ==
  { navigationLogs[i].id : i \in 1..Len(navigationLogs) }
    \cup {MissingId, SuppliedId} \cup (IF last.id # 0 THEN {last.id} ELSE {})

\* one more mutating call, of at most MaxCalls in a behaviour
Counted == calls < MaxCalls /\ calls' = calls + 1

Add(logData) ==
  /\ Counted
  /\ Len(navigationLogs) < MaxLogs
  /\ \E r \in {addNavigationLog(This, logData, now)} :
       /\ Becomes(r.s)
       /\ last' = [NoCall EXCEPT !.op = "addNavigationLog", !.data = logData,
                     !.thrown = r.s.thrown,
                     !.flag = IF r.s.thrown THEN "none" ELSE "value"]
  /\ UNCHANGED <<now, saved, editingId, pure>>

AddNavigationLog == \E logData \in AddInputs : Add(logData)

Update(id, logData) ==
  /\ Counted
  /\ \E r \in {updateNavigationLog(This, id, logData, now)} :
       /\ Becomes(r.s)
       /\ last' = [NoCall EXCEPT !.op = "updateNavigationLog", !.id = id,
                     !.data = logData, !.thrown = r.s.thrown,
                     !.flag = IF r.s.thrown THEN "none"
                              ELSE IF r.found THEN "value" ELSE "null"]
  /\ UNCHANGED <<now, saved, editingId, pure>>

UpdateNavigationLog == \E id \in Ids, logData \in UpdateInputs : Update(id, logData)

Delete(id) ==
  /\ Counted
  /\ \E r \in {deleteNavigationLog(This, id, now)} :
       /\ Becomes(r.s)
       /\ last' = [NoCall EXCEPT !.op = "deleteNavigationLog", !.id = id,
                     !.thrown = r.s.thrown,
                     !.flag = IF r.s.thrown THEN "none"
                              ELSE IF r.found THEN "true" ELSE "false"]
  /\ UNCHANGED <<now, saved, editingId, pure>>

DeleteNavigationLog == \E id \in Ids : Delete(id)

BulkAddLogs ==
  \E logs \in BulkInputs :
    /\ Counted
    /\ Len(navigationLogs) + Len(logs) <= MaxLogs
    /\ \E s \in {bulkAddLogs(This, logs, now)} :
         /\ Becomes(s)
         /\ last' = [NoCall EXCEPT !.op = "bulkAddLogs", !.thrown = s.thrown]
    /\ UNCHANGED <<now, saved, editingId, pure>>

Replace(logs) ==
  /\ Counted
  /\ Len(logs) <= MaxLogs
  /\ \E s \in {replaceAllLogs(This, logs, now)} :
       /\ Becomes(s)
       /\ last' = [NoCall EXCEPT !.op = "replaceAllLogs", !.thrown = s.thrown]
  /\ UNCHANGED <<now, saved, editingId, pure>>

ReplaceAllLogs == \E logs \in ReplaceInputs : Replace(logs)

GetLogById ==
  \E id \in Ids :
    \E ret \in {getLogById(This, id)} :
      /\ last' = [NoCall EXCEPT !.op = "getLogById", !.id = id, !.ret = ret,
                    !.flag = IF ret = << >> THEN "undefined" ELSE "value"]
      /\ UNCHANGED <<dm, now, calls, saved, editingId, pure>>

Answered(op, r) ==
  /\ Becomes(r.s)
  /\ last' = [NoCall EXCEPT !.op = op, !.thrown = r.s.thrown, !.hit = r.hit,
                !.ret = r.ret, !.flag = "value"]
  /\ UNCHANGED <<now, calls, saved, editingId, pure>>

ByDate(date) == Answered("getLogsByDate", getLogsByDate(This, date, now))

\* the dates and ranges queried
DateQueries == {1}
RangeQueries == { <<1, MaxDate>> }

GetLogsByDate == \E date \in DateQueries : ByDate(date)

ByDateRange(startDate, endDate) ==
  Answered("getLogsByDateRange", getLogsByDateRange(This, startDate, endDate, now))

GetLogsByDateRange == \E q \in RangeQueries : ByDateRange(q[1], q[2])

GetChronologicalLogs ==
  Answered("getChronologicalLogs", getChronologicalLogs(This, now))

InBounds(box) ==
  Answered("getLogsInBounds",
           getLogsInBounds(This, box.northEast, box.southWest, now))

GetLogsInBounds == \E box \in Boxes : InBounds(box)

\* the interval timer fires between two calls
CleanupTimer ==
  /\ Becomes(CacheCleanup(This, now))
  /\ last' = [NoCall EXCEPT !.op = "cacheCleanup",
                !.flag = IF CacheCleanup(This, now).cache = cache THEN "none"
                         ELSE "removed"]
  /\ UNCHANGED <<now, calls, saved, editingId, pure>>

\* The clock advances between two calls, here by more than the time-to-live:
\* now = T0 + Jumps * (ttl + 1).
Jumps == (now - T0) \div (ttl + 1)

TickPastTtl ==
  /\ Jumps < MaxJumps
  /\ now' = now + ttl + 1
  /\ UNCHANGED <<dm, last, calls, saved, editingId, pure>>

\* The store alone: the mutating calls and the clock.
NextStore ==
  \/ AddNavigationLog
  \/ UpdateNavigationLog
  \/ DeleteNavigationLog
  \/ BulkAddLogs
  \/ ReplaceAllLogs
  \/ TickPastTtl
SpecStore == Init /\ [][NextStore]_vars

\* The store with every query. Its states multiply the cached results of the
\* four cached queries; each property below is stated under the store with
\* the one query it speaks of.
Next ==
  \/ NextStore
  \/ GetLogById
  \/ GetLogsByDate
  \/ GetLogsByDateRange
  \/ GetChronologicalLogs
  \/ GetLogsInBounds
  \/ CleanupTimer
Spec == Init /\ [][Next]_vars

\* The store with one kind of query each.
NextChrono == NextStore \/ GetChronologicalLogs \/ CleanupTimer
SpecChrono == Init /\ [][NextChrono]_vars

NextRange == NextStore \/ GetLogsByDateRange \/ CleanupTimer
SpecRange == Init /\ [][NextRange]_vars

NextDate == NextStore \/ GetLogsByDate \/ CleanupTimer
SpecDate == Init /\ [][NextDate]_vars

NextBounds == NextStore \/ GetLogsInBounds \/ CleanupTimer
SpecBounds == Init /\ [][NextBounds]_vars

\* The calls that take an id, with the range query.
NextById ==
  \/ AddNavigationLog
  \/ UpdateNavigationLog
  \/ DeleteNavigationLog
  \/ GetLogsByDateRange
SpecById == Init /\ [][NextById]_vars

\* the store under replacement, with the two queries whose answers depend on
\* state that a rebuild leaves alone or resets
NextReplace ==
  \/ AddNavigationLog
  \/ UpdateNavigationLog
  \/ ReplaceAllLogs
  \/ GetChronologicalLogs
  \/ GetLogsInBounds
SpecReplace == Init /\ [][NextReplace]_vars

\* the query cache over time: records come in, the three cached queries are
\* asked, the clock passes the time-to-live and the cleanup timer fires
NextTtl ==
  \/ AddNavigationLog
  \/ GetLogsByDateRange
  \/ GetChronologicalLogs
  \/ GetLogsInBounds
  \/ TickPastTtl
  \/ CleanupTimer
SpecTtl == Init /\ [][NextTtl]_vars

\* the query cache under the four cached queries, with adds and deletes
NextCache ==
  \/ AddNavigationLog
  \/ DeleteNavigationLog
  \/ GetLogsByDate
  \/ GetLogsByDateRange
  \/ GetChronologicalLogs
  \/ GetLogsInBounds
SpecCache == Init /\ [][NextCache]_vars

\* queries whose range is inverted: a start date after the end date, and a
\* box whose south-west corner lies north of its north-east corner
InvertedRange == <<MaxDate, 1>>
InvertedBox == [northEast |-> [lat |-> 12400, lon |-> 0 - 94200],
                southWest |-> [lat |-> 12500, lon |-> 0 - 95400]]

GetLogsByInvertedRange == ByDateRange(InvertedRange[1], InvertedRange[2])
GetLogsInInvertedBounds == InBounds(InvertedBox)

NextInverted ==
  \/ AddNavigationLog
  \/ DeleteNavigationLog
  \/ GetLogsByDateRange
  \/ GetLogsByInvertedRange
  \/ GetLogsInInvertedBounds
SpecInverted == Init /\ [][NextInverted]_vars
\* ---------------------------------------------------------- the application
\* JSON.parse(JSON.stringify(logs)): each record keeps the fields that carry a
\* value; a field that is undefined is not written.
JsonRoundTrip(logs) == [i \in 1..Len(logs) |-> Spread(NoFields, logs[i])]

\* DataStorage.save: localStorage.setItem stores the text or throws
save(stored, logs, quotaExceeded) ==
  IF quotaExceeded THEN [stored |-> stored, thrown |-> TRUE]
  ELSE [stored |-> JsonRoundTrip(logs), thrown |-> FALSE]

\* what the handler's try block does with the outcome r of the data manager:
\* a throw, or a not-found result, skips the save
Persisted(r, proceed, quotaExceeded) ==
  IF r.s.thrown \/ ~proceed THEN [stored |-> saved, thrown |-> TRUE]
  ELSE save(saved, r.s.navigationLogs, quotaExceeded)

Reported(op, id, w) ==
  [NoCall EXCEPT !.op = op, !.id = id,
                 !.flag = IF w.thrown THEN "failure" ELSE "success"]

\* a record without a position, and the records of AddInputs
Unpositioned == LogData(UndefNum, 1, 720, UndefStr, UndefStr, "false")
AppAddInputs == AddInputs \cup {Unpositioned}

AppAdd(data, quotaExceeded) ==
  /\ Counted
  /\ Len(navigationLogs) < MaxLogs
  /\ \E r \in {addNavigationLog(This, data, now)} :
       \E w \in {Persisted(r, TRUE, quotaExceeded)} :
         /\ Becomes(r.s)
         /\ saved' = w.stored
         /\ last' = Reported("app.addNavigationLog", 0, w)
  /\ UNCHANGED <<now, editingId, pure>>

AppAddNavigationLog ==
  \E data \in AppAddInputs, quotaExceeded \in BOOLEAN : AppAdd(data, quotaExceeded)

AppUpdate(id, data, quotaExceeded) ==
  /\ Counted
  /\ \E r \in {updateNavigationLog(This, id, data, now)} :
       \E w \in {Persisted(r, r.found, quotaExceeded)} :
         /\ Becomes(r.s)
         /\ saved' = w.stored
         /\ last' = Reported("app.updateNavigationLog", id, w)
  /\ UNCHANGED <<now, editingId, pure>>

AppUpdateNavigationLog ==
  \E id \in Ids, data \in UpdateInputs, quotaExceeded \in BOOLEAN :
    AppUpdate(id, data, quotaExceeded)

\* confirm() answered with Cancel returns before anything is done
AppDelete(id, confirmed, quotaExceeded) ==
  /\ Counted
  /\ IF ~confirmed
     THEN /\ last' = [NoCall EXCEPT !.op = "app.deleteNavigationLog", !.id = id,
                                    !.flag = "cancelled"]
          /\ UNCHANGED <<dm, saved>>
     ELSE \E r \in {deleteNavigationLog(This, id, now)} :
            \E w \in {Persisted(r, r.found, quotaExceeded)} :
              /\ Becomes(r.s)
              /\ saved' = w.stored
              /\ last' = Reported("app.deleteNavigationLog", id, w)
  /\ UNCHANGED <<now, editingId, pure>>

AppDeleteNavigationLog ==
  \E id \in Ids, confirmed \in BOOLEAN, quotaExceeded \in BOOLEAN :
    AppDelete(id, confirmed, quotaExceeded)

\* !log.isImportant
Negated(isImportant) == IF isImportant = "true" THEN "false" ELSE "true"

\* the record is read through getLogById and written back whole with the
\* flag negated; the result of updateNavigationLog is not looked at
AppToggle(id, quotaExceeded) ==
  /\ Counted
  /\ \E found \in {getLogById(This, ParseIntId(id))} :
       IF found = << >>
       THEN /\ last' = [NoCall EXCEPT !.op = "app.toggleImportance", !.id = id,
                                      !.flag = "failure"]
            /\ UNCHANGED <<dm, saved>>
       ELSE \E r \in {updateNavigationLog(This, id,
                         [found[1] EXCEPT !.isImportant = Negated(@)], now)} :
              \E w \in {Persisted(r, TRUE, quotaExceeded)} :
                /\ Becomes(r.s)
                /\ saved' = w.stored
                /\ last' = Reported("app.toggleImportance", id, w)
  /\ UNCHANGED <<now, editingId, pure>>

AppToggleImportance ==
  \E id \in Ids, quotaExceeded \in BOOLEAN : AppToggle(id, quotaExceeded)

IdsIn(logs) == { logs[i].id : i \in 1..Len(logs) }

\* Math.max(...ids), 0 for an empty store
MaxId(logs) ==
  IF logs = << >> THEN 0
  ELSE CHOOSE m \in IdsIn(logs) : \A id \in IdsIn(logs) : id <= m

Renumbered(logs, maxId) == [i \in 1..Len(logs) |-> [logs[i] EXCEPT !.id = maxId + i]]

\* the callback importFromJSON hands to the storage: replace, or merge under
\* new ids, then save
AppImport(importedLogs, isReplace, quotaExceeded) ==
  /\ Counted
  /\ (IF isReplace THEN 0 ELSE Len(navigationLogs)) + Len(importedLogs) <= MaxLogs
  /\ \E s \in {IF isReplace THEN replaceAllLogs(This, importedLogs, now)
                ELSE bulkAddLogs(This, Renumbered(importedLogs,
                                                  MaxId(navigationLogs)), now)} :
       \E w \in {Persisted([s |-> s], TRUE, quotaExceeded)} :
         /\ Becomes(s)
         /\ saved' = w.stored
         /\ last' = Reported("app.importFromJSON", 0, w)
  /\ UNCHANGED <<now, editingId, pure>>

AppImportFromJSON ==
  \E importedLogs \in ReplaceInputs \cup BulkInputs, isReplace \in BOOLEAN,
     quotaExceeded \in BOOLEAN :
    AppImport(importedLogs, isReplace, quotaExceeded)

\* _createSampleData, one record of its three
SampleData ==
  << [LogData(1, 1, 480, LatStd, LonStd, "false") EXCEPT !.entryTimestamp = T0 - 300000] >>

\* init: _loadApplicationData finds nothing saved, adds the sample data and
\* saves it
AppInit ==
  /\ \E s \in {bulkAddLogs(Constructed, SampleData, T0)} :
       /\ navigationLogs = s.navigationLogs
       /\ logsById = s.logsById
       /\ logsByDate = s.logsByDate
       /\ chronologicalIndex = s.chronologicalIndex
       /\ chronologicalDirty = s.chronologicalDirty
       /\ spatialGrid = s.spatialGrid
       /\ spatialBounds = s.spatialBounds
       /\ cache = s.cache
       /\ cacheTimestamps = s.cacheTimestamps
       /\ coordinateCache = s.coordinateCache
       /\ saved = save(<< >>, s.navigationLogs, FALSE).stored
  /\ now = T0
  /\ last = NoCall
  /\ calls = 0
  /\ editingId = NoEdit
  /\ argument = << >>
  /\ returned = << >>

NextApp ==
  \/ AppAddNavigationLog
  \/ AppUpdateNavigationLog
  \/ AppDeleteNavigationLog
  \/ AppToggleImportance
  \/ AppImportFromJSON
SpecApp == AppInit /\ [][NextApp]_vars

\* ------------------------------------------------------------ the edit form
\* what the form holds when it is submitted
FormInputs ==
  { LogData(UndefNum, 1, 720, LatMoj, LonMoj, "false"),
    LogData(UndefNum, 2, 480, LatMoj2, LonMoj, "false") }

\* editNavigationLog: the entry is looked up; when it is there the form is
\* filled and edit mode begins
Edit(id) ==
  /\ IF getLogById(This, id) = << >>
     THEN /\ last' = [NoCall EXCEPT !.op = "app.editNavigationLog", !.id = id,
                                    !.flag = "failure"]
          /\ UNCHANGED editingId
     ELSE /\ last' = [NoCall EXCEPT !.op = "app.editNavigationLog", !.id = id,
                                    !.flag = "success"]
          /\ editingId' = id
  /\ UNCHANGED <<dm, now, calls, saved, pure>>

EditNavigationLog == \E id \in Ids : Edit(id)

CancelEdit ==
  /\ editingId' = NoEdit
  /\ last' = [NoCall EXCEPT !.op = "app.cancelEdit"]
  /\ UNCHANGED <<dm, now, calls, saved, pure>>

\* the submit handler of the form
Submit(formData, quotaExceeded) ==
  IF editingId # NoEdit THEN AppUpdate(editingId, formData, quotaExceeded)
  ELSE AppAdd(formData, quotaExceeded)

SubmitForm ==
  \E formData \in FormInputs, quotaExceeded \in BOOLEAN :
    Submit(formData, quotaExceeded)

NextEdit ==
  \/ EditNavigationLog
  \/ CancelEdit
  \/ SubmitForm
  \/ AppDeleteNavigationLog
SpecEdit == AppInit /\ [][NextEdit]_vars



\* ------------------------------------------------------ coordinate parsing
\* CoordinateUtils.parseCoordinate: the whole string has to match
\* /^(\d+)deg(\d+\.?\d*)'([NSEW])$/ and the minutes have to be below 60
parseCoordinate(coordString) ==
  IF coordString = << >> THEN Null
  ELSE With({ r \in MatchesAt(coordString, <<"deg">>, 1) :
                r.k + 1 = Len(coordString) }, LAMBDA matches :
       IF matches = {} THEN Null
       ELSE With(CHOOSE r \in matches : TRUE, LAMBDA r :
            With(MinutesTenths(coordString, r.m, r.k - 1), LAMBDA minutes :
            IF minutes >= 600 THEN Null
            ELSE With(ParseInt10(SubSeq(coordString, 1, r.j)) * 600 + minutes,
                      LAMBDA decimal :
                 IF coordString[r.k + 1] \in {"S", "W"} THEN 0 - decimal
                 ELSE decimal))))

\* The strings parsed, each put together from a piece of text before the
\* degrees, the degrees, the degree mark, the minutes, the quote, the
\* direction and a piece of text after it. A piece carries what it stands
\* for: value is the number written (minutes in tenths), Null when the piece
\* is not a number of the format.
Piece(text, value) == [text |-> text, value |-> value]
Junk == { << >>, <<"x">> }
DegreesPieces ==
  { Piece(<<"2", "0">>, 20), Piece(<<"0">>, 0), Piece(<<"1", "5", "8">>, 158),
    Piece(<< >>, Null) }
MarkPieces == { <<"deg">>, <<"Acirc", "deg">>, << >> }
MinutesPieces ==
  { Piece(<<"3", "0", ".", "0">>, 300), Piece(<<"5", "9", ".", "9">>, 599),
    Piece(<<"5">>, 50), Piece(<<"0", "3", ".", "0">>, 30),
    Piece(<<"6", "0", ".", "0">>, 600), Piece(<<"7", "5">>, 750),
    Piece(<<".", "5">>, Null), Piece(<< >>, Null) }
QuotePieces == { <<"'">>, << >> }
DirectionPieces == { <<"N">>, <<"S">>, <<"E">>, <<"W">>, <<"X">>, << >> }

CoordInputs ==
  [before : Junk, degrees : DegreesPieces, mark : MarkPieces,
   minutes : MinutesPieces, quote : QuotePieces, direction : DirectionPieces,
   after : Junk]

Text(in) ==
  in.before \o in.degrees.text \o in.mark \o in.minutes.text \o in.quote
    \o in.direction \o in.after

NotParsed == [parser |-> "none", value |-> Null]

\* the store as constructed and never called, nothing saved
Idle ==
  /\ navigationLogs = Constructed.navigationLogs
  /\ logsById = Constructed.logsById
  /\ logsByDate = Constructed.logsByDate
  /\ chronologicalIndex = Constructed.chronologicalIndex
  /\ chronologicalDirty = Constructed.chronologicalDirty
  /\ spatialGrid = Constructed.spatialGrid
  /\ spatialBounds = Constructed.spatialBounds
  /\ cache = Constructed.cache
  /\ cacheTimestamps = Constructed.cacheTimestamps
  /\ coordinateCache = Constructed.coordinateCache
  /\ now = T0
  /\ last = NoCall
  /\ calls = 0
  /\ saved = << >>
  /\ editingId = NoEdit

InitParse ==
  /\ Idle
  /\ argument \in CoordInputs
  /\ returned = NotParsed

UtilsParseCoordinate ==
  /\ returned = NotParsed
  /\ returned' = [parser |-> "CoordinateUtils.parseCoordinate",
                  value |-> parseCoordinate(Text(argument))]
  /\ UNCHANGED <<dm, now, last, calls, saved, editingId, argument>>

StoreParseCoordinate ==
  /\ returned = NotParsed
  /\ returned' = [parser |-> "NavigationDataManager._parseCoordinate",
                  value |-> ParseWith(DataManagerSep, Text(argument))]
  /\ UNCHANGED <<dm, now, last, calls, saved, editingId, argument>>

NextParse == UtilsParseCoordinate \/ StoreParseCoordinate
SpecParse == InitParse /\ [][NextParse]_vars

\* ------------------------------------------------------------ nearest land
Infinity == Null + 1

\* DistanceCalculator.calculateDistance is the great-circle distance of two
\* positions. The model has no trigonometry: positions are whole degrees a
\* few degrees apart and the distance is measured by the square of their
\* planar separation, which orders such pairs of positions as the
\* great-circle distance does close to the equator.
calculateDistance(lat1, lon1, lat2, lon2) ==
  (lat2 - lat1) * (lat2 - lat1) + (lon2 - lon1) * (lon2 - lon1)

\* param = dot / lenSq is compared with 0 and 1 through dot and lenSq; the
\* projected point is whole for the segments of the inputs, which run along
\* a parallel or a meridian
distanceToLineSegment(px, py, x1, y1, x2, y2) ==
  With([A |-> px - x1, B |-> py - y1, C |-> x2 - x1, D |-> y2 - y1], LAMBDA v :
  With(v.A * v.C + v.B * v.D, LAMBDA dot :
  With(v.C * v.C + v.D * v.D, LAMBDA lenSq :
  IF lenSq = 0 THEN calculateDistance(py, px, y1, x1)
  ELSE IF dot < 0 THEN calculateDistance(py, px, y1, x1)
  ELSE IF dot > lenSq THEN calculateDistance(py, px, y2, x2)
  ELSE calculateDistance(py, px, y1 + (dot * v.D) \div lenSq,
                                 x1 + (dot * v.C) \div lenSq))))

Smaller(distance, minDistance) == IF distance < minDistance THEN distance ELSE minDistance

RECURSIVE CoastlineFrom(_, _, _, _, _)
\* the loop of distanceToCoastline from vertex i on
CoastlineFrom(shipLat, shipLon, coastline, i, minDistance) ==
  IF i > Len(coastline) THEN minDistance
  ELSE With(Smaller(calculateDistance(shipLat, shipLon, coastline[i].lat,
                                      coastline[i].lon), minDistance),
            LAMBDA afterPoint :
       CoastlineFrom(shipLat, shipLon, coastline, i + 1,
         IF i < Len(coastline)
         THEN Smaller(distanceToLineSegment(shipLon, shipLat,
                        coastline[i].lon, coastline[i].lat,
                        coastline[i + 1].lon, coastline[i + 1].lat), afterPoint)
         ELSE afterPoint))

distanceToCoastline(shipLat, shipLon, coastline) ==
  IF coastline = << >> THEN Infinity
  ELSE CoastlineFrom(shipLat, shipLon, coastline, 1, Infinity)

landDisplayNames(landName) ==
  CASE landName = "hawaii" -> "Hawaiian Islands"
    [] landName = "japan" -> "Japan"
    [] OTHER -> landName

NotFound == [distance |-> Null, nearestLand |-> "Unknown", displayText |-> "N/A"]

RECURSIVE LandFrom(_, _, _, _, _)
\* the loop over Object.entries(window.LANDMASS_BOUNDARIES) from entry i on:
\* [minDistance, nearestLand]
LandFrom(entries, latitude, longitude, i, best) ==
  IF i > Len(entries) THEN best
  ELSE With(distanceToCoastline(latitude, longitude, entries[i].coastline),
            LAMBDA distance :
       LandFrom(entries, latitude, longitude, i + 1,
                IF distance < best.minDistance
                THEN [minDistance |-> distance, nearestLand |-> entries[i].landName]
                ELSE best))

\* A calculation that reports the first registered coastline instead of the
\* nearest: the behaviour calculateDistanceToLand is compared against.
calculateDistanceToFirstLand(boundaries, latitude, longitude) ==
  IF ~boundaries.defined \/ boundaries.entries = << >> THEN NotFound
  ELSE With(distanceToCoastline(latitude, longitude,
                                boundaries.entries[1].coastline), LAMBDA d :
       IF d = Infinity THEN NotFound
       ELSE [distance |-> d,
             nearestLand |-> landDisplayNames(boundaries.entries[1].landName),
             displayText |-> IF d < 1 THEN "ft" ELSE "NM"])

\* boundaries is window.LANDMASS_BOUNDARIES; displayText keeps the unit of
\* the formatted distance
calculateDistanceToLand(boundaries, latitude, longitude) ==
  IF ~boundaries.defined THEN NotFound
  ELSE With(LandFrom(boundaries.entries, latitude, longitude, 1,
                     [minDistance |-> Infinity, nearestLand |-> ""]), LAMBDA best :
       IF best.minDistance = Infinity THEN NotFound
       ELSE [distance |-> best.minDistance,
             nearestLand |-> landDisplayNames(best.nearestLand),
             displayText |-> IF best.minDistance < 1 THEN "ft" ELSE "NM"])

\* positions are whole degrees from 0 to MaxCoord; at most MaxLands coastlines
MaxCoord == 2
MaxLands == 2

Point(lat, lon) == [lat |-> lat, lon |-> lon]
LandNames == {"hawaii", "japan", "reef"}
Coastlines ==
  { << >>,
    << Point(0, 0) >>,
    << Point(2, 0), Point(2, 2) >>,
    << Point(0, 2), Point(0, 2), Point(1, 2) >> }

Entries == [landName : LandNames, coastline : Coastlines]

\* the values of window.LANDMASS_BOUNDARIES: not defined, or an object of
\* up to MaxLands coastlines under different names
Boundaries ==
  { [defined |-> FALSE, entries |-> << >>] }
    \cup { [defined |-> TRUE, entries |-> es] :
             es \in { es \in UNION { [1..n -> Entries] : n \in 0..MaxLands } :
                        \A i, k \in DOMAIN es :
                          i # k => es[i].landName # es[k].landName } }

NotCalled == [distance |-> Null, nearestLand |-> "none", displayText |-> "none"]

InitLand ==
  /\ Idle
  /\ argument \in [boundaries : Boundaries, latitude : 0..MaxCoord,
                    longitude : 0..MaxCoord]
  /\ returned = NotCalled

CalculateDistanceToLand ==
  /\ returned = NotCalled
  /\ returned' = calculateDistanceToLand(argument.boundaries, argument.latitude,
                                         argument.longitude)
  /\ UNCHANGED <<dm, now, last, calls, saved, editingId, argument>>

NextLand == CalculateDistanceToLand
SpecLand == InitLand /\ [][NextLand]_vars

\* ------------------------------------------------------------- a full cache
\* With maxSize at 1000 the cache fills through a thousand different range
\* queries. The behaviours below start when that has happened: the store is
\* empty, the ranges <<i, i>> for i up to `entries` have been asked, the
\* first `older` of them one millisecond before the clock's T0 and the
\* others at T0. MaxExtra further ranges are then asked.
MaxExtra == 3
MaxOlder == 2

Filled(entries, older) ==
  [Constructed EXCEPT
     !.cache = [key \in { DateRangeKey(i, i) : i \in 1..entries } |-> Value(<< >>)],
     !.cacheTimestamps =
        [key \in { DateRangeKey(i, i) : i \in 1..entries } |->
           IF key.a <= older THEN T0 - 1 ELSE T0]]

InitFull ==
  /\ \E entries \in (maxSize - 1)..maxSize, older \in 0..MaxOlder :
       /\ cache = Filled(entries, older).cache
       /\ cacheTimestamps = Filled(entries, older).cacheTimestamps
  /\ navigationLogs = Constructed.navigationLogs
  /\ logsById = Constructed.logsById
  /\ logsByDate = Constructed.logsByDate
  /\ chronologicalIndex = Constructed.chronologicalIndex
  /\ chronologicalDirty = Constructed.chronologicalDirty
  /\ spatialGrid = Constructed.spatialGrid
  /\ spatialBounds = Constructed.spatialBounds
  /\ coordinateCache = Constructed.coordinateCache
  /\ now = T0
  /\ last = NoCall
  /\ calls = 0
  /\ saved = << >>
  /\ editingId = NoEdit
  /\ argument = << >>
  /\ returned = << >>

\* a range that was not asked while the cache filled
GetLogsByFurtherRange ==
  \E i \in 1..MaxExtra : ByDateRange(maxSize + i, maxSize + i)

NextFull == GetLogsByFurtherRange \/ TickPastTtl
SpecFull == InitFull /\ [][NextFull]_vars

\* ---------------------------------------------- the full coordinate memo
\* The coordinate memo after many positions have been looked up: strings that
\* do not parse ("1", "2", ...), each remembered as null, and possibly one
\* position that parses, last used at the instant lastUsed.
Unparseable(i) == <<ToString(i), ToString(i)>>
ParseableKey == <<LatMoj2, LonMoj>>

Memoized(entries, parseable, lastUsed) ==
  [key \in { Unparseable(i) : i \in 1..(entries - parseable) }
            \cup (IF parseable = 1 THEN {ParseableKey} ELSE {}) |->
     IF key = ParseableKey
     THEN [isNull |-> FALSE, lat |-> _parseCoordinate(LatMoj2),
           lon |-> _parseCoordinate(LonMoj), lastUsed |-> lastUsed]
     ELSE NullEntry]

InitMemo ==
  /\ \E entries \in (maxCoordinateCache - 1)..maxCoordinateCache,
        parseable \in 0..1, lastUsed \in {T0 - 1, T0} :
       coordinateCache = Memoized(entries, parseable, lastUsed)
  /\ navigationLogs = Constructed.navigationLogs
  /\ logsById = Constructed.logsById
  /\ logsByDate = Constructed.logsByDate
  /\ chronologicalIndex = Constructed.chronologicalIndex
  /\ chronologicalDirty = Constructed.chronologicalDirty
  /\ spatialGrid = Constructed.spatialGrid
  /\ spatialBounds = Constructed.spatialBounds
  /\ cache = Constructed.cache
  /\ cacheTimestamps = Constructed.cacheTimestamps
  /\ now = T0
  /\ last = NoCall
  /\ calls = 0
  /\ saved = << >>
  /\ editingId = NoEdit
  /\ argument = << >>
  /\ returned = << >>

NextMemo == AddNavigationLog \/ DeleteNavigationLog \/ TickPastTtl
SpecMemo == InitMemo /\ [][NextMemo]_vars

\* ================================================================ properties
\* what the properties speak of
IdsOf(logs) == { logs[i].id : i \in 1..Len(logs) }
Count(logs, r) == Cardinality({ i \in 1..Len(logs) : logs[i] = r })
Records(logs) == { logs[i] : i \in 1..Len(logs) }
\* the two arrays hold the same records, each as often
SameRecords(a, b) ==
  /\ Len(a) = Len(b)
  /\ \A r \in Records(a) \cup Records(b) : Count(a, r) = Count(b, r)
ValidDate(logDate) == logDate >= 1
StoredWhere(Test(_)) ==
  { navigationLogs[i].id :
      i \in { j \in 1..Len(navigationLogs) : Test(navigationLogs[j]) } }
HasValidDate(log) == ValidDate(log.logDate)
IndexedByDate == UNION { IdsOf(logsByDate[d]) : d \in DOMAIN logsByDate }
IsImportant(log) == log.isImportant = "true"
ImportanceSet == StoredWhere(IsImportant)
SetImportant == [NoFields EXCEPT !.isImportant = "true"]
ClearImportant == [NoFields EXCEPT !.isImportant = "false"]
Ordered(logs) ==
  (\A i \in 1..Len(logs) : ~IsNaNDate(logs[i]))
    => \A i, j \in 1..Len(logs) : i < j => Epoch(logs[i]) <= Epoch(logs[j])
\* the coordinates of a stored record as _parseCoordinate reads them
CoordsOf(log) ==
  IF log.latitude = UndefStr \/ log.longitude = UndefStr THEN NoCoords
  ELSE IF _parseCoordinate(log.latitude) = Null
          \/ _parseCoordinate(log.longitude) = Null THEN NoCoords
  ELSE [ok |-> TRUE, lat |-> _parseCoordinate(log.latitude),
        lon |-> _parseCoordinate(log.longitude)]
StoredInBox(box) ==
  SelectSeq(navigationLogs,
            LAMBDA log : InBox(CoordsOf(log), box.northEast, box.southWest))
StoredOn(date) == SelectSeq(navigationLogs, LAMBDA log : log.logDate = date)

\* C1: after any sequence of add, update and delete the ids in the buckets of
\* the by-date index are exactly the ids of the stored records with a valid
\* logDate.
C1_ByDateIndexIsStore == IndexedByDate = StoredWhere(HasValidDate)

\* C2: getChronologicalLogs returns the stored records, each as often as the
\* store holds it, and when all of them carry a date and a time, in
\* non-decreasing order of (logDate, positionTime).
C2_ChronologicalIsSortedStore ==
  last.op = "getChronologicalLogs"
    => SameRecords(last.ret, navigationLogs) /\ Ordered(last.ret)

\* C3: a range query repeated within the time-to-live, nothing else called
\* between, is answered from the cache with the payload of the first; a range
\* query that follows an add, or an update or delete of a stored id, is
\* recomputed from the records stored then.
C3_RangeCacheHitAndInvalidation ==
  [][\A q \in RangeQueries :
       ByDateRange(q[1], q[2])
         => /\ ( /\ last.op = "getLogsByDateRange"
                 /\ Has(cacheTimestamps, DateRangeKey(q[1], q[2]))
                 /\ now - cacheTimestamps[DateRangeKey(q[1], q[2])] <= ttl )
               => last'.hit /\ last'.ret = last.ret
            /\ ( \/ last.op = "addNavigationLog"
                 \/ last.op = "updateNavigationLog" /\ last.flag # "null"
                 \/ last.op = "deleteNavigationLog" /\ last.flag # "false" )
               => ~last'.hit /\ last'.ret = Filter(navigationLogs, q[1], q[2])]_vars

\* C4: getLogsInBounds returns exactly the stored records whose parsed
\* coordinates lie in the box.
C4_InBoundsIsExact ==
  [][\A box \in Boxes :
       InBounds(box) => SameRecords(last'.ret, StoredInBox(box))]_vars

\* C5: getLogsByDate(D) returns exactly the stored records whose logDate is D,
\* whatever was cached for D before.
C5_ByDateIsExact ==
  [][\A date \in DateQueries :
       ByDate(date) => SameRecords(last'.ret, StoredOn(date))]_vars

\* C6: no two stored records have the same id, adds at one clock instant
\* included.
C6_UniqueIds ==
  \A i, j \in 1..Len(navigationLogs) :
    i # j => navigationLogs[i].id # navigationLogs[j].id

\* C7 as stated: an add without an id assigns the greatest stored id plus one,
\* or 1 to the first record.
C7_AddAssignsMaxPlusOne ==
  [][\A logData \in AddInputs :
       (logData.id = UndefNum /\ Add(logData))
         => navigationLogs'[Len(navigationLogs')].id = ConsecutiveId(navigationLogs)]_vars

\* C7: an add without an id appends one record whose id is the reading of
\* the clock at the call, whatever ids the store holds.
C7_AddAssignsClock ==
  [][\A logData \in AddInputs :
       (logData.id = UndefNum /\ Add(logData))
         => /\ Len(navigationLogs') = Len(navigationLogs) + 1
            /\ navigationLogs'[Len(navigationLogs')].id = now
            /\ SubSeq(navigationLogs', 1, Len(navigationLogs)) = navigationLogs]_vars

\* an add without an id, after the clock moved, into a store that holds a
\* record: the new id is the clock's reading and not the successor of the
\* stored one
C7_Witness ==
  /\ last.op = "addNavigationLog"
  /\ last.data.id = UndefNum
  /\ Len(navigationLogs) = 2
  /\ navigationLogs[2].id = now
  /\ navigationLogs[1].id < now
  /\ navigationLogs[2].id # navigationLogs[1].id + 1

\* C8: an update of a stored record sets lastModified to the time of the call,
\* gives each supplied field its supplied value and leaves every other field,
\* id and entryTimestamp among them, as it was.
C8_UpdateChangesSuppliedOnly ==
  [][\A id \in Ids, logData \in UpdateInputs :
       (Update(id, logData) /\ FindIndex(navigationLogs, id) # 0)
         => LET index == FindIndex(navigationLogs, id)
                old == navigationLogs[index]
                new == navigationLogs'[index]
            IN  /\ Len(navigationLogs') = Len(navigationLogs)
                /\ new.id = old.id
                /\ new.entryTimestamp = old.entryTimestamp
                /\ new.lastModified = now
                /\ \A f \in Fields \ {"id", "entryTimestamp", "lastModified"} :
                     new[f] = IF logData[f] # Absent(f) THEN logData[f] ELSE old[f]]_vars

\* C9: a delete or an update of an id no stored record has returns false,
\* respectively null, does not throw, and leaves the records, the indexes,
\* the tracked bounds, the dirty flag and the caches as they were.
C9_MissingIdChangesNothing ==
  [][\A id \in Ids :
       FindIndex(navigationLogs, id) = 0
         => /\ Delete(id)
               => UNCHANGED dm /\ last'.flag = "false" /\ ~last'.thrown
            /\ \A logData \in UpdateInputs :
                 Update(id, logData)
                   => UNCHANGED dm /\ last'.flag = "null" /\ ~last'.thrown]_vars

\* a delete answered false, of the id a record was added under and deleted
\* (its coordinates are still in the coordinate cache), with records stored
\* and a range query cached
C9_Witness ==
  /\ last.op = "deleteNavigationLog"
  /\ last.flag = "false"
  /\ last.id = SuppliedId
  /\ Has(coordinateCache, <<LatMoj2, LonMoj>>)
  /\ \A i \in 1..Len(navigationLogs) : navigationLogs[i].latitude # LatMoj2
  /\ navigationLogs # << >>
  /\ cache # EmptyMap

\* C10: when update(id, {isImportant: true}) found its record and
\* update(id, {isImportant: false}) follows it, id is not in the importance
\* set afterwards.
C10_ImportanceCleared ==
  [][\A id \in Ids :
       ( /\ last.op = "updateNavigationLog"
         /\ last.id = id
         /\ last.data = SetImportant
         /\ last.flag # "null"
         /\ Update(id, ClearImportant) )
         => id \notin ImportanceSet']_vars
\* A fresh store that received the records one addNavigationLog at a time.
RECURSIVE AddEach(_, _, _, _)
AddEach(s, logs, i, t) ==
  IF i > Len(logs) THEN s
  ELSE AddEach(addNavigationLog(s, logs[i], t).s, logs, i + 1, t)

Fresh(logs, t) == AddEach(Constructed, logs, 1, t)

\* the answers of every query of the store s at time t
Answers(s, t) ==
  [byId |-> [id \in IdsOf(s.navigationLogs) \cup {MissingId, SuppliedId} |->
               getLogById(s, id)],
   byDate |-> [date \in 1..MaxDate |-> getLogsByDate(s, date, t).ret],
   byRange |-> [q \in RangeQueries |-> getLogsByDateRange(s, q[1], q[2], t).ret],
   chronological |-> getChronologicalLogs(s, t).ret,
   inBounds |-> [box \in Boxes |->
                   getLogsInBounds(s, box.northEast, box.southWest, t).ret]]

EquivalentToFresh(s, logs, t) ==
  With(Fresh(logs, t), LAMBDA f :
    /\ s.navigationLogs = f.navigationLogs
    /\ s.logsById = f.logsById
    /\ s.logsByDate = f.logsByDate
    /\ s.spatialGrid = f.spatialGrid
    /\ s.spatialBounds = f.spatialBounds
    /\ s.cache = EmptyMap
    /\ s.cacheTimestamps = EmptyMap
    /\ Answers(s, t) = Answers(f, t))

StoredBetween(startDate, endDate) ==
  SelectSeq(navigationLogs,
            LAMBDA log : ValidDate(log.logDate)
                         /\ startDate <= log.logDate /\ log.logDate <= endDate)

\* C12: whatever adds, updates, deletes, bulk adds, replacements and queries
\* came before, getLogsByDateRange(start, end) returns exactly the records
\* stored at the time of the call whose logDate is from start to end, both
\* ends included.
C12_RangeIsExact ==
  [][\A q \in RangeQueries :
       ByDateRange(q[1], q[2])
         => SameRecords(last'.ret, StoredBetween(q[1], q[2])')]_vars

\* the calls of the application that change records
AppMutations ==
  {"app.addNavigationLog", "app.updateNavigationLog", "app.deleteNavigationLog",
   "app.toggleImportance", "app.importFromJSON"}

\* C13: when an add, update, delete, importance toggle or JSON import of the
\* application has finished, with success or with failure, the records last
\* saved to durable storage are the records the data manager holds.
C13_SavedIsMemory ==
  last.op \in AppMutations => SameRecords(saved, JsonRoundTrip(navigationLogs))

\* what the format gives for a string put together from pieces: the degrees
\* plus a sixtieth of the minutes (1/600 degree), negative for S and W, when
\* the string is a number of degrees, the degree sign, minutes below 60, a
\* quote and one of N, S, E, W and nothing else; a failure otherwise
InFormat(in) ==
  /\ in.before = << >> /\ in.after = << >>
  /\ in.degrees.value # Null
  /\ in.mark = <<"deg">>
  /\ in.minutes.value # Null /\ in.minutes.value < 600
  /\ in.quote = <<"'">>
  /\ in.direction \in { <<"N">>, <<"S">>, <<"E">>, <<"W">> }

Expected(in) ==
  IF ~InFormat(in) THEN Null
  ELSE IF in.direction \in { <<"S">>, <<"W">> }
       THEN 0 - (in.degrees.value * 600 + in.minutes.value)
       ELSE in.degrees.value * 600 + in.minutes.value

\* C14: a coordinate string is parsed only when the whole of it is integer
\* degrees, the degree sign, decimal minutes below 60, a quote and one of N,
\* S, E, W, to degrees + minutes/60, negative for S and W; every other string
\* is a parse failure. This holds of the parser of the record store and of
\* CoordinateUtils.parseCoordinate.
C14_ParsersAcceptOnlyTheFormat ==
  returned # NotParsed => returned.value = Expected(argument)

\* the distances of the registered coastlines from the position asked about
LandDistances ==
  [i \in DOMAIN argument.boundaries.entries |->
     distanceToCoastline(argument.latitude, argument.longitude,
                         argument.boundaries.entries[i].coastline)]

Nearest(found) ==
  \E i \in DOMAIN LandDistances :
    /\ \A k \in DOMAIN LandDistances : LandDistances[i] <= LandDistances[k]
    /\ found.distance = LandDistances[i]
    /\ found.nearestLand = landDisplayNames(argument.boundaries.entries[i].landName)

HasVertex == \E i \in DOMAIN LandDistances : argument.boundaries.entries[i].coastline # << >>

Positions ==
  { <<navigationLogs[i].id, navigationLogs[i].latitude, navigationLogs[i].longitude>> :
      i \in 1..Len(navigationLogs) }

BoundsCached == \E key \in DOMAIN cache : StartsWith(key, BoundsHead)

\* C16: an add, update or delete that adds a record, removes one or changes
\* the coordinates of one leaves no cached bounding-box result (key prefix
\* bounds_) behind, so that the next getLogsInBounds computes its answer anew.
C16_BoundsCacheInvalidated ==
  [][( /\ last'.op \in {"addNavigationLog", "updateNavigationLog",
                        "deleteNavigationLog"}
       /\ Positions' # Positions )
       => ~BoundsCached']_vars

\* C17: whenever the dirty flag is clear and the cached chronological
\* sequence is as long as the store, that sequence is the stored records in
\* sorted order, so the fast path of getChronologicalLogs never returns a
\* sequence older than a mutation.
C17_CleanIndexIsSortedStore ==
  (~chronologicalDirty /\ Len(chronologicalIndex) = Len(navigationLogs))
    => chronologicalIndex = Sort(navigationLogs)

\* C18: the chronological_all entry is stored with a longer time-to-live
\* than the entries of range queries, and that time-to-live is the one its
\* lookup applies: at an age beyond the time-to-live of a dateRange_ or
\* bounds_ entry and within its own, a lookup of chronological_all is a hit.
C18_ChronologicalOutlivesRange ==
  ( /\ Has(cache, ChronoKey) /\ Has(cacheTimestamps, ChronoKey)
    /\ now - cacheTimestamps[ChronoKey] > ttl
    /\ now - cacheTimestamps[ChronoKey] <= chronologicalTtl )
    => _getCached(This, ChronoKey, now).hit

\* C19: a cache lookup returns no payload older than the time-to-live: the
\* lookup of an entry of greater age is a miss and removes the entry, payload
\* and timestamp, and a lookup that is a hit found an entry of at most that age.
C19_ExpiredIsMissAndRemoved ==
  \A key \in DOMAIN cacheTimestamps \cup DOMAIN cache :
    With(_getCached(This, key, now), LAMBDA r :
      /\ r.hit => /\ Has(cacheTimestamps, key)
                  /\ now - cacheTimestamps[key] <= ttl
      /\ (Has(cacheTimestamps, key) /\ now - cacheTimestamps[key] > ttl)
           => /\ ~r.hit
              /\ ~Has(r.s.cache, key)
              /\ ~Has(r.s.cacheTimestamps, key))

\* an entry older than the time-to-live is in the cache, next to a fresh one
C19_Witness ==
  /\ \E key \in DOMAIN cacheTimestamps :
       Has(cache, key) /\ now - cacheTimestamps[key] > ttl
  /\ \E key \in DOMAIN cacheTimestamps :
       Has(cache, key) /\ now - cacheTimestamps[key] <= ttl

\* the entries a step removed from the cache, and the ones it put in
Evicted == (DOMAIN cache) \ (DOMAIN cache')
Inserted == (DOMAIN cache') \ (DOMAIN cache)

\* C20: the query cache never holds more than maxSize entries: a query that
\* inserts into a full cache first evicts exactly one entry, one whose
\* insertion instant is the oldest, also when every cached entry was
\* inserted at the clock instant of the insertion.
C20_CacheWithinMaxSize ==
  [][ /\ Cardinality(DOMAIN cache') <= maxSize
      /\ (Cardinality(DOMAIN cache) >= maxSize /\ Inserted # {})
           => /\ Cardinality(Evicted) = 1
              /\ \A gone \in Evicted, key \in DOMAIN cacheTimestamps :
                   cacheTimestamps[gone] <= cacheTimestamps[key] ]_vars

\* the category lists passed to _invalidateCaches
CategoryLists == SUBSET {ChronologicalCat, DateRangeCat, AllCat}

\* the keys a category list names: those of the chronological view and of
\* the range queries; date_ and bounds_ keys are named by none
Named(keys, categories) ==
  { key \in keys :
      \/ AllCat \in categories
      \/ ChronologicalCat \in categories /\ key.head = ChronoHead
      \/ DateRangeCat \in categories /\ key.head = DateRangeHead }

Restricted(f, keys) == [key \in (DOMAIN f) \cap keys |-> f[key]]

\* C21: _invalidateCaches(categories) removes the cache entries whose key
\* starts with one of the categories and leaves the payload and the insertion
\* instant of every other entry as they are; with 'all' it empties the cache.
\* The invalidation of an add, update or delete removes the chronological
\* and dateRange entries and leaves the date_ and bounds_ entries in place.
C21_InvalidationFrame ==
  [][ /\ \A categories \in CategoryLists :
           With(_invalidateCaches(This', categories), LAMBDA s :
             /\ s.cache = Restricted(cache', (DOMAIN cache')
                                       \ Named(DOMAIN cache', categories))
             /\ s.cacheTimestamps =
                  Restricted(cacheTimestamps', (DOMAIN cacheTimestamps')
                               \ Named(DOMAIN cacheTimestamps', categories))
             /\ [s EXCEPT !.cache = cache', !.cacheTimestamps = cacheTimestamps'] = This')
      /\ ( /\ \/ last'.op = "addNavigationLog"
              \/ last'.op = "deleteNavigationLog" /\ last'.flag = "true"
           /\ ~last'.thrown )
           => /\ DOMAIN cache' = (DOMAIN cache) \ Named(DOMAIN cache, MutationCategories)
              /\ cacheTimestamps' =
                   Restricted(cacheTimestamps, (DOMAIN cacheTimestamps)
                                \ Named(DOMAIN cacheTimestamps, MutationCategories)) ]_vars

\* an add has just invalidated while a date_ and a bounds_ entry were cached:
\* both are still there and no dateRange or chronological entry is
C21_Witness ==
  /\ last.op = "addNavigationLog" /\ ~last.thrown
  /\ \E key \in DOMAIN cache : key.head = DateHead
  /\ \E key \in DOMAIN cache : key.head = BoundsHead
  /\ Len(navigationLogs) = 2

Forgotten == (DOMAIN coordinateCache) \ (DOMAIN coordinateCache')
Memorized == (DOMAIN coordinateCache') \ (DOMAIN coordinateCache)

\* C22: the coordinate memo never holds more than maxCoordinateCache entries,
\* whatever mix of parseable and unparseable strings was looked up: a lookup
\* that inserts into a full memo first evicts exactly one entry, the one
\* with the oldest last-access instant.
C22_CoordinateCacheWithinCapacity ==
  [][ /\ Cardinality(DOMAIN coordinateCache') <= maxCoordinateCache
      /\ (Cardinality(DOMAIN coordinateCache) >= maxCoordinateCache
            /\ Memorized # {})
           => /\ Cardinality(Forgotten) = 1
              /\ \A gone \in Forgotten, key \in DOMAIN coordinateCache :
                   \/ coordinateCache[key].isNull
                   \/ /\ ~coordinateCache[gone].isNull
                      /\ coordinateCache[gone].lastUsed
                           <= coordinateCache[key].lastUsed ]_vars

\* a lookup has inserted into a full memo that held an entry older than the
\* clock: that entry went and the memo is still within its capacity
C22_EvictedOldest ==
  /\ Cardinality(DOMAIN coordinateCache) = maxCoordinateCache
  /\ ParseableKey \notin DOMAIN coordinateCache
  /\ last.op = "addNavigationLog"
  /\ Len(navigationLogs) = 1

\* the stored records whose coordinates parse into the cell gridKey
StoredInCell(gridKey) ==
  SelectSeq(navigationLogs,
            LAMBDA log : CoordsOf(log).ok /\ GridKey(CoordsOf(log)) = gridKey)

CellsOfStore ==
  { GridKey(CoordsOf(navigationLogs[i])) :
      i \in { j \in 1..Len(navigationLogs) : CoordsOf(navigationLogs[j]).ok } }

Succeeded(ops) == last.op \in ops /\ ~last.thrown

StoreMutations ==
  {"addNavigationLog", "updateNavigationLog", "deleteNavigationLog",
   "bulkAddLogs", "replaceAllLogs"}

\* C23: after a successful add, update, delete, bulkAddLogs or replaceAllLogs
\* every cell of the spatial grid holds exactly the stored records whose
\* coordinates parse into that cell, each once: a record is in no other cell,
\* a record whose coordinates do not parse is in no cell, and nothing that
\* left the store or moved to other coordinates is still referenced.
C23_GridIsStore ==
  Succeeded(StoreMutations)
    => \A gridKey \in (DOMAIN spatialGrid) \cup CellsOfStore :
         SameRecords(IF Has(spatialGrid, gridKey) THEN spatialGrid[gridKey]
                     ELSE << >>,
                     StoredInCell(gridKey))

\* the records the spatial grid references
Indexed ==
  UNION { Records(spatialGrid[gridKey]) : gridKey \in DOMAIN spatialGrid }

Encloses(bounds, coords) ==
  /\ bounds.minLat <= coords.lat /\ coords.lat <= bounds.maxLat
  /\ bounds.minLon <= coords.lon /\ coords.lon <= bounds.maxLon

\* C24: in every reachable state spatialBounds enclose the coordinates of
\* every record in the spatial grid, whichever of add, update, bulkAddLogs
\* and replaceAllLogs indexed it, so the early return of getLogsInBounds
\* rejects no box that contains an indexed record.
C24_BoundsEncloseGrid ==
  \A log \in Indexed : Encloses(spatialBounds, CoordsOf(log))

\* C25: in every reachable state no bucket of the by-date index and no cell
\* of the spatial grid is empty: when a delete or an update takes the last
\* record out of a bucket or cell, the key goes with it.
C25_NoEmptyBucket ==
  /\ \A logDate \in DOMAIN logsByDate : logsByDate[logDate] # << >>
  /\ \A gridKey \in DOMAIN spatialGrid : spatialGrid[gridKey] # << >>

\* one record with parsed coordinates was added and then deleted: its date
\* bucket and its cell are gone
C25_Witness ==
  /\ calls = 2
  /\ Succeeded({"deleteNavigationLog"}) /\ last.flag = "true"
  /\ navigationLogs = << >>
  /\ \E coordKey \in DOMAIN coordinateCache : ~coordinateCache[coordKey].isNull
  /\ DOMAIN logsByDate = {} /\ DOMAIN spatialGrid = {}

\* the call returned an empty array and did not throw, and the records and
\* the indices are as before the call
EmptyAndHarmless ==
  /\ last'.ret = << >> /\ ~last'.thrown
  /\ UNCHANGED <<navigationLogs, logsById, logsByDate, spatialGrid,
                 spatialBounds, chronologicalIndex, chronologicalDirty>>

\* C26: a date-range query with start after end, and a box query with south
\* above north, returns an empty result that carries a diagnostic flag, does
\* not throw, and changes no record and no index.
C26_InvalidRangeIsFlaggedEmpty ==
  [][(GetLogsByInvertedRange \/ GetLogsInInvertedBounds)
       => EmptyAndHarmless /\ last'.flag = "InvalidRange"]_vars

\* the part of C26 without the flag
C26_InvalidRangeIsEmpty ==
  [][(GetLogsByInvertedRange \/ GetLogsInInvertedBounds) => EmptyAndHarmless]_vars

SameInstant(a, b) ==
  /\ ~IsNaNDate(a) /\ ~IsNaNDate(b)
  /\ a.logDate = b.logDate /\ a.positionTime = b.positionTime

\* C27: in the sequence getChronologicalLogs returns, records with equal
\* logDate and positionTime stand in ascending order of id, in whatever order
\* they were added, bulk-added or updated.
C27_TiesInIdOrder ==
  last.op = "getChronologicalLogs"
    => \A i, j \in 1..Len(last.ret) :
         (i < j /\ SameInstant(last.ret[i], last.ret[j]))
           => last.ret[i].id <= last.ret[j].id

\* C28: the periodic cleanup, run at any point between calls, changes the
\* answer of no query made at that instant or later: every entry it removes
\* is one a lookup at that instant treats as expired, every other entry keeps
\* its payload and insertion instant, and the records, the indices, the
\* chronological view and its dirty flag are not touched.
C28_CleanupIsInvisible ==
  [][CleanupTimer =>
       /\ Answers(This', now) = Answers(This, now)
       /\ Answers(This', now + ttl + 1) = Answers(This, now + ttl + 1)
       /\ \A key \in (DOMAIN cache) \ (DOMAIN cache') :
            ~_getCached(This, key, now).hit
       /\ \A key \in DOMAIN cache' :
            /\ cache'[key] = cache[key]
            /\ cacheTimestamps'[key] = cacheTimestamps[key]
       /\ UNCHANGED <<navigationLogs, logsById, logsByDate, spatialGrid,
                      spatialBounds, chronologicalIndex, chronologicalDirty,
                      coordinateCache>>]_vars

\* the cleanup has removed expired entries and left one inserted after the
\* clock advanced
C28_Witness ==
  /\ last.op = "cacheCleanup" /\ last.flag = "removed"
  /\ cache # EmptyMap
  /\ navigationLogs # << >>

\* C29: in every reachable state the by-id index has exactly one entry per
\* stored record, and getLogById(id) returns a record exactly when a record
\* with that id is stored, and then a stored record with that id.
C29_ByIdIsStore ==
  /\ Cardinality(DOMAIN logsById) = Len(navigationLogs)
  /\ \A id \in IdsOf(navigationLogs) \cup (DOMAIN logsById)
                \cup {MissingId, SuppliedId} :
       With(getLogById(This, id), LAMBDA ret :
         /\ ret # << >> <=> id \in IdsOf(navigationLogs)
         /\ ret # << >> => ret[1] \in Records(navigationLogs) /\ ret[1].id = id)

\* C30: when a submit has updated the entry being edited, the next submit
\* adds a record instead of updating that entry again; and a submit never
\* updates an entry that is no longer stored.
C30_SubmitLeavesEditMode ==
  [][SubmitForm =>
       /\ (last.op = "app.updateNavigationLog" /\ last.flag = "success")
            => last'.op = "app.addNavigationLog"
       /\ last'.op = "app.updateNavigationLog"
            => last'.id \in IdsOf(navigationLogs)]_vars

====
